---- MODULE Spec2Model ----
(***************************************************************************)
(* Nicosia buffers (NicosiaBuffer.cpp) and the pool of GBM buffers         *)
(* (SkiaGbmBufferPool.cpp): the global memory accounting, the painting     *)
(* state machine of the CPU- and kernel-memory-backed buffers, the fence   *)
(* of the GPU-surface buffer, the texture import, and the pool with its    *)
(* one-shot eviction timer.                                                *)
(***************************************************************************)
EXTENDS Integers, Sequences, FiniteSets, TLC

(* ------------------------------ bounds -------------------------------- *)

\* Buffers constructed in one run (each construction gets a fresh identity).
MaxAllocs == 2
\* Clients of the pool, each holding at most one acquired reference.
NumClients == 2
\* Consumer threads calling waitUntilPaintingComplete.
NumConsumers == 2
\* Calls of the painter that are counted (beginPainting plus completePainting).
MaxPaintCalls == 4
\* The clock advances in steps of TickMs milliseconds up to MaxNow.
TickMs == 500
MaxNow == 6000
\* Calls of createTexture in one run.
MaxTextureCalls == 3

(* -------------------------- program constants ------------------------- *)

\* static const Seconds releaseUnusedBuffersTimerInterval { 500_ms };
releaseUnusedBuffersTimerInterval == 500
\* static const Seconds releaseUnusedSecondsTolerance { 5_s };
releaseUnusedSecondsTolerance == 5000
\* const auto checkedArea = size.area() * 4;
BytesPerPixel == 4

(* ------------------------------ inputs -------------------------------- *)

\* Buffer::Flags
Flags == {"NoFlags", "SupportsAlpha"}

\* IntSize values handed to the constructors; <<1,2>> and <<2,1>> have the
\* same area and are different sizes.
MemSizes == {<<1, 1>>, <<1, 2>>, <<2, 1>>}
PoolSizes == {<<1, 2>>, <<2, 1>>}
Clients == 1..NumClients
Consumers == 1..NumConsumers
BufferIds == 1..MaxAllocs
NoBuffer == 0
\* A null RefPtr<Nicosia::Buffer>, as an object.
nullptr == [kind |-> "null"]

Max(a, b) == IF a >= b THEN a ELSE b

VARIABLES
    s_currentLayersMemoryUsage, \* Buffer::s_currentLayersMemoryUsage
    s_maxLayersMemoryUsage,     \* Buffer::s_maxLayersMemoryUsage
    buffers,                    \* the live Buffer objects, by identity
    nextId,                     \* identity of the next object constructed
    gbmMappings,                \* kernel mappings outstanding (gbm_bo_map / gbm_bo_unmap)
    m_buffers,                  \* SkiaGbmBufferPool::m_buffers
    timerActive,                \* m_releaseUnusedBuffersTimer.isActive()
    timerDeadline,              \* when the pending one-shot timer is due
    poolAlive,                  \* the pool object exists
    now,                        \* MonotonicTime::now(), in ms
    held,                       \* the reference each client got from acquireBuffer
    gbmDevice,                  \* DRMDeviceManager has a render node (mainGBMDeviceNode)
    waiter,                     \* the consumer threads inside waitUntilPaintingComplete
    aborted,                    \* the process was terminated by a failed assertion
    op,                         \* the last call made, with what it returned (history)
    hist                        \* counters and maxima kept for the properties (history)

vars == <<s_currentLayersMemoryUsage, s_maxLayersMemoryUsage, buffers, nextId,
          gbmMappings, m_buffers, timerActive, timerDeadline, poolAlive, now,
          held, gbmDevice, waiter, aborted, op, hist>>

memVars == <<s_currentLayersMemoryUsage, s_maxLayersMemoryUsage>>
poolVars == <<m_buffers, timerActive, timerDeadline, poolAlive, held, gbmDevice>>
paintVars == <<waiter, aborted>>

(* ------------------------ IntSize and the flags ------------------------ *)

\* IntSize::area()
area(size) == size[1] * size[2]

\* const auto checkedArea = size.area() * 4;
checkedArea(size) == area(size) * BytesPerPixel

(* --------------------------- Buffer objects ---------------------------- *)

\* PaintingState of a freshly constructed buffer.
InitialPaintingState == "Complete"

\* UnacceleratedBuffer::UnacceleratedBuffer: m_data is the zeroed allocation
\* (null when tryZeroedMalloc fails), m_surface wraps it.
UnacceleratedBuffer(size, flags, mallocOk) ==
    [kind |-> "Unaccelerated", m_size |-> size, m_flags |-> flags,
     refCount |-> 1, state |-> InitialPaintingState,
     m_bo |-> FALSE, m_data |-> mallocOk, m_mapData |-> FALSE,
     m_surface |-> mallocOk, m_textureID |-> 0]

\* GbmBuffer::createGbmBuffer: m_bo is the buffer object of the first
\* allocation that succeeds (with the linear modifier, then with
\* GBM_BO_USE_LINEAR), and stays null when there is no device or both fail.
GbmBuffer_createGbmBuffer(deviceFound, withModifiers, plain) ==
    deviceFound /\ (withModifiers \/ plain)

\* GbmBuffer::GbmBuffer
GbmBuffer(size, flags, boCreated) ==
    [kind |-> "Gbm", m_size |-> size, m_flags |-> flags,
     refCount |-> 1, state |-> InitialPaintingState,
     m_bo |-> boCreated, m_data |-> FALSE, m_mapData |-> FALSE,
     m_surface |-> FALSE, m_textureID |-> 0]

\* Buffer::supportsAlpha(): the SupportsAlpha bit of the flags.
supportsAlpha(b) == buffers[b].m_flags = "SupportsAlpha"

\* Buffer::size()
size(b) == buffers[b].m_size

\* The function f with the key k bound to v.
With(f, k, v) == [x \in DOMAIN f \cup {k} |-> IF x = k THEN v ELSE f[x]]

RECURSIVE SumBytes(_)
\* The sum of width*height*4 over the buffers of a set.
SumBytes(S) ==
    IF S = {} THEN 0
    ELSE LET b == CHOOSE x \in S : TRUE
         IN checkedArea(buffers[b].m_size) + SumBytes(S \ {b})

(* -------------------------- memory accounting -------------------------- *)


\* A constructor that adds its share and forgets the peak.
AddMemoryUsage_withoutPeak(bytes) ==
    /\ s_currentLayersMemoryUsage' = s_currentLayersMemoryUsage + bytes
    /\ UNCHANGED s_maxLayersMemoryUsage

\* The constructors' locked block:
\*   s_currentLayersMemoryUsage += checkedArea;
\*   s_maxLayersMemoryUsage = std::max(s_maxLayersMemoryUsage, s_currentLayersMemoryUsage);
AddMemoryUsage(bytes) ==
    /\ s_currentLayersMemoryUsage' = s_currentLayersMemoryUsage + bytes
    /\ s_maxLayersMemoryUsage' =
           Max(s_maxLayersMemoryUsage, s_currentLayersMemoryUsage + bytes)


\* A destructor that subtracts the area in pixels instead of bytes.
SubtractMemoryUsage_inPixels(bytes) ==
    /\ s_currentLayersMemoryUsage' = s_currentLayersMemoryUsage - (bytes \div BytesPerPixel)
    /\ UNCHANGED s_maxLayersMemoryUsage

\* The destructors' locked block: s_currentLayersMemoryUsage -= checkedArea;
SubtractMemoryUsage(bytes) ==
    /\ s_currentLayersMemoryUsage' = s_currentLayersMemoryUsage - bytes
    /\ UNCHANGED s_maxLayersMemoryUsage

\* The history of the accounting after a construction: the largest value
\* s_currentLayersMemoryUsage took since the last sample or reset.
HistAfterAdd(bytes) ==
    [hist EXCEPT !.maxSince = Max(@, s_currentLayersMemoryUsage + bytes)]

\* The history once the buffers of S are no longer free entries of the pool:
\* their release times are forgotten.
HistForget(S) ==
    [hist EXCEPT !.releasedAt = [b \in BufferIds |-> IF b \in S THEN -1 ELSE @[b]]]

\* Buffer::resetMemoryUsage
resetMemoryUsage ==
    /\ aborted = "none"
    /\ s_maxLayersMemoryUsage' = s_currentLayersMemoryUsage
    /\ UNCHANGED s_currentLayersMemoryUsage
    /\ op' = [name |-> "resetMemoryUsage", prev |-> op.name,
              currentBefore |-> s_currentLayersMemoryUsage]
    /\ hist' = [hist EXCEPT !.maxSince = s_currentLayersMemoryUsage]
    /\ UNCHANGED <<buffers, nextId, gbmMappings, poolVars, now, paintVars>>


\* A getMemoryUsage that returns the peak and does not move the baseline.
getMemoryUsage_withoutReset ==
    /\ aborted = "none"
    /\ op' = [name |-> "getMemoryUsage", prev |-> op.name,
              result |-> s_maxLayersMemoryUsage, maxSince |-> hist.maxSince,
              currentBefore |-> s_currentLayersMemoryUsage]
    /\ hist' = [hist EXCEPT !.maxSince = s_currentLayersMemoryUsage]
    /\ UNCHANGED <<memVars, buffers, nextId, gbmMappings, poolVars, now, paintVars>>

\* Buffer::getMemoryUsage
getMemoryUsage ==
    /\ aborted = "none"
    /\ LET memoryUsage == s_maxLayersMemoryUsage
       IN /\ s_maxLayersMemoryUsage' = s_currentLayersMemoryUsage
          /\ op' = [name |-> "getMemoryUsage", prev |-> op.name,
                    result |-> memoryUsage, maxSince |-> hist.maxSince,
                    currentBefore |-> s_currentLayersMemoryUsage]
    /\ UNCHANGED s_currentLayersMemoryUsage
    /\ hist' = [hist EXCEPT !.maxSince = s_currentLayersMemoryUsage]
    /\ UNCHANGED <<buffers, nextId, gbmMappings, poolVars, now, paintVars>>

(* ------------------- construction and destruction ---------------------- *)

\* UnacceleratedBuffer::create
UnacceleratedBuffer_create(sz, flags, mallocOk) ==
    /\ aborted = "none"
    /\ nextId <= MaxAllocs
    /\ buffers' = With(buffers, nextId, UnacceleratedBuffer(sz, flags, mallocOk))
    /\ nextId' = nextId + 1
    /\ AddMemoryUsage(checkedArea(sz))
    /\ hist' = HistAfterAdd(checkedArea(sz))
    /\ op' = [name |-> "create", result |-> nextId]
    /\ UNCHANGED <<gbmMappings, poolVars, now, paintVars>>

\* GbmBuffer::create
GbmBuffer_create(sz, flags, boCreated) ==
    /\ aborted = "none"
    /\ nextId <= MaxAllocs
    /\ buffers' = With(buffers, nextId, GbmBuffer(sz, flags, boCreated))
    /\ nextId' = nextId + 1
    /\ AddMemoryUsage(checkedArea(sz))
    /\ hist' = HistAfterAdd(checkedArea(sz))
    /\ op' = [name |-> "create", result |-> nextId]
    /\ UNCHANGED <<gbmMappings, poolVars, now, paintVars>>

\* The kernel mappings ~GbmBuffer gives back for the buffers of S: it unmaps
\* only when m_bo is set and a mapping exists; ~UnacceleratedBuffer maps nothing.
MappingsReleased(S) ==
    Cardinality({b \in S : buffers[b].kind = "Gbm" /\ buffers[b].m_bo /\ buffers[b].m_mapData})

\* UnacceleratedBuffer::~UnacceleratedBuffer and GbmBuffer::~GbmBuffer, run
\* for every buffer of S (each lost its last reference).
DestroyBuffers(S) ==
    /\ gbmMappings' = gbmMappings - MappingsReleased(S)
    /\ SubtractMemoryUsage(SumBytes(S))

\* RefCounted::deref for one reference to each buffer of S: the count drops
\* by one and the buffer is destroyed when it reaches zero.
deref(S) ==
    LET dead == {x \in S : buffers[x].refCount = 1}
    IN /\ buffers' = [x \in DOMAIN buffers \ dead |->
                         IF x \in S THEN [buffers[x] EXCEPT !.refCount = @ - 1]
                         ELSE buffers[x]]
       /\ DestroyBuffers(dead)

\* Dropping the only reference to a buffer that nobody shares (its creator's).
derefCreated(b) ==
    /\ aborted = "none"
    /\ b \in DOMAIN buffers
    /\ buffers[b].refCount = 1
    /\ \A i \in 1..Len(m_buffers) : m_buffers[i].m_buffer # b
    /\ \A t \in Consumers : ~(waiter[t].pc # "idle" /\ waiter[t].b = b)
    /\ deref({b})
    /\ op' = [name |-> "destroy", buffer |-> b]
    /\ UNCHANGED <<nextId, poolVars, now, paintVars, hist>>

(* ------------------------ the painting state machine ------------------- *)

\* ASSERT(condition): a failed assertion is a fatal contract violation that
\* terminates the process before the statements after it run.
AssertionFails(condition) == ~condition

\* Condition::notifyOne: the parked threads it may wake (at most one is woken).
ParkedOn(b) == {t \in Consumers : waiter[t].pc = "parked" /\ waiter[t].b = b}

\* m_painting.condition.notifyOne(), waking the parked thread t, or nobody
\* (t = 0) when no thread is parked on the buffer.
notifyOne(b, t) ==
    /\ IF ParkedOn(b) = {} THEN t = 0 ELSE t \in ParkedOn(b)
    /\ waiter' = [x \in Consumers |->
                     IF x = t THEN [waiter[x] EXCEPT !.pc = "notified"] ELSE waiter[x]]

\* The body of UnacceleratedBuffer::beginPainting under m_painting.lock.
UnacceleratedBuffer_beginPainting_body(buf) ==
    IF AssertionFails(buf.state = "Complete")
    THEN [asserts |-> TRUE, buf |-> buf, maps |-> 0]
    ELSE [asserts |-> FALSE, buf |-> [buf EXCEPT !.state = "InProgress"], maps |-> 0]

\* The body of UnacceleratedBuffer::completePainting under m_painting.lock,
\* up to the notification.
UnacceleratedBuffer_completePainting_body(buf) ==
    IF AssertionFails(buf.state = "InProgress")
    THEN [asserts |-> TRUE, buf |-> buf]
    ELSE [asserts |-> FALSE, buf |-> [buf EXCEPT !.state = "Complete"]]

\* GbmBuffer::map: with no paint surface yet, gbm_bo_map gives the CPU address
\* and the map token (both null when it fails: mapOk = FALSE) and the surface
\* wraps the address.
map(buf, mapOk) ==
    IF ~buf.m_surface
    THEN [buf EXCEPT !.m_data = mapOk, !.m_mapData = mapOk, !.m_surface = mapOk]
    ELSE buf

\* An unmap that keeps the paint surface wrapping the unmapped address.
unmap_keepingSurface(buf) ==
    IF buf.m_mapData
    THEN [buf EXCEPT !.m_mapData = FALSE, !.m_data = FALSE]
    ELSE buf

\* GbmBuffer::unmap
unmap(buf) ==
    IF buf.m_mapData
    THEN [buf EXCEPT !.m_mapData = FALSE, !.m_data = FALSE, !.m_surface = FALSE]
    ELSE buf

\* The kernel mappings GbmBuffer::map adds when called on buf: one for a
\* gbm_bo_map that is called and succeeds.
NewMappings(buf, mapOk) == IF ~buf.m_surface /\ mapOk THEN 1 ELSE 0


\* A beginPainting that goes on without checking the state.
GbmBuffer_beginPainting_body_unchecked(buf, mapOk) ==
    LET mapped == IF ~buf.m_data THEN map(buf, mapOk) ELSE buf
    IN [asserts |-> FALSE, buf |-> [mapped EXCEPT !.state = "InProgress"],
        maps |-> IF ~buf.m_data THEN NewMappings(buf, mapOk) ELSE 0]

\* The body of GbmBuffer::beginPainting under m_painting.lock.
GbmBuffer_beginPainting_body(buf, mapOk) ==
    IF AssertionFails(buf.state = "Complete")
    THEN [asserts |-> TRUE, buf |-> buf, maps |-> 0]
    ELSE LET mapped == IF ~buf.m_data THEN map(buf, mapOk) ELSE buf
         IN [asserts |-> FALSE, buf |-> [mapped EXCEPT !.state = "InProgress"],
             maps |-> IF ~buf.m_data THEN NewMappings(buf, mapOk) ELSE 0]

\* The body of GbmBuffer::completePainting under m_painting.lock, up to the
\* notification.
GbmBuffer_completePainting_body(buf) ==
    IF AssertionFails(buf.state = "InProgress")
    THEN [asserts |-> TRUE, buf |-> buf]
    ELSE [asserts |-> FALSE, buf |-> [buf EXCEPT !.state = "Complete"]]

\* The painter may make another counted call.
PainterMayCall == hist.begins + hist.completes < MaxPaintCalls

\* A call of beginPainting on buffer b with the outcome r of its body.
BeginPaintingCall(b, r) ==
    /\ buffers' = [buffers EXCEPT ![b] = r.buf]
    /\ gbmMappings' = gbmMappings + r.maps
    /\ aborted' = IF r.asserts THEN "assert" ELSE "none"
    /\ hist' = IF r.asserts THEN hist ELSE [hist EXCEPT !.begins = @ + 1]
    /\ op' = [name |-> "beginPainting", buffer |-> b,
              stateBefore |-> buffers[b].state, violation |-> r.asserts]
    /\ UNCHANGED <<memVars, nextId, poolVars, now, waiter>>

\* A call of completePainting on buffer b with the outcome r of its body; the
\* notification wakes thread t.
CompletePaintingCall(b, r, t) ==
    /\ buffers' = [buffers EXCEPT ![b] = r.buf]
    /\ aborted' = IF r.asserts THEN "assert" ELSE "none"
    /\ IF r.asserts THEN UNCHANGED waiter ELSE notifyOne(b, t)
    /\ hist' = IF r.asserts THEN hist ELSE [hist EXCEPT !.completes = @ + 1]
    /\ op' = [name |-> "completePainting", buffer |-> b,
              stateBefore |-> buffers[b].state, violation |-> r.asserts]
    /\ UNCHANGED <<memVars, nextId, gbmMappings, poolVars, now>>

\* UnacceleratedBuffer::beginPainting
UnacceleratedBuffer_beginPainting(b) ==
    /\ aborted = "none" /\ PainterMayCall
    /\ b \in DOMAIN buffers /\ buffers[b].kind = "Unaccelerated"
    /\ BeginPaintingCall(b, UnacceleratedBuffer_beginPainting_body(buffers[b]))

\* UnacceleratedBuffer::completePainting
UnacceleratedBuffer_completePainting(b) ==
    /\ aborted = "none" /\ PainterMayCall
    /\ b \in DOMAIN buffers /\ buffers[b].kind = "Unaccelerated"
    /\ \E t \in Consumers \cup {0} :
           CompletePaintingCall(b, UnacceleratedBuffer_completePainting_body(buffers[b]), t)

\* GbmBuffer::beginPainting. Painters check for usable backing memory first:
\* map() hands m_bo to gbm_bo_map unchecked.
GbmBuffer_beginPainting(b, mapOk) ==
    /\ aborted = "none" /\ PainterMayCall
    /\ b \in DOMAIN buffers /\ buffers[b].kind = "Gbm" /\ buffers[b].m_bo
    /\ BeginPaintingCall(b, GbmBuffer_beginPainting_body(buffers[b], mapOk))

\* GbmBuffer::completePainting
GbmBuffer_completePainting(b) ==
    /\ aborted = "none" /\ PainterMayCall
    /\ b \in DOMAIN buffers /\ buffers[b].kind = "Gbm" /\ buffers[b].m_bo
    /\ \E t \in Consumers \cup {0} :
           CompletePaintingCall(b, GbmBuffer_completePainting_body(buffers[b]), t)

\* The predicate of the wait: m_painting.state == PaintingState::Complete.
UnacceleratedBuffer_waitPredicate(buf) == buf.state = "Complete"


\* A wait whose predicate tests for the wrong state.
GbmBuffer_waitPredicate_inverted(buf) == buf.state = "InProgress"

\* The predicate of the wait: m_painting.state == PaintingState::Complete.
GbmBuffer_waitPredicate(buf) == buf.state = "Complete"

\* The predicate of waitUntilPaintingComplete for the kind of the buffer.
waitPredicate(buf) ==
    IF buf.kind = "Gbm" THEN GbmBuffer_waitPredicate(buf)
    ELSE UnacceleratedBuffer_waitPredicate(buf)

\* What follows the wait before the call returns: GbmBuffer unmaps,
\* UnacceleratedBuffer does nothing.
afterWait(buf) == IF buf.kind = "Gbm" THEN unmap(buf) ELSE buf

\* Condition::wait(lock, predicate) with the lock held by thread t: with the
\* predicate true the call goes on and returns, otherwise the thread parks
\* (releasing the lock) until it is woken.
WaitStep(t, b, entryBegins, wasParked) ==
    IF waitPredicate(buffers[b])
    THEN /\ buffers' = [buffers EXCEPT ![b] = afterWait(@)]
         /\ gbmMappings' = gbmMappings - (IF afterWait(buffers[b]) # buffers[b] THEN 1 ELSE 0)
         /\ waiter' = [waiter EXCEPT ![t] = [pc |-> "idle", b |-> NoBuffer, begins |-> 0]]
         /\ op' = [name |-> "waitUntilPaintingComplete", buffer |-> b,
                   thread |-> t, stateAtReturn |-> buffers[b].state, parked |-> wasParked,
                   beginsAtEntry |-> entryBegins, completesAtReturn |-> hist.completes]
    ELSE /\ waiter' = [waiter EXCEPT ![t] = [pc |-> "parked", b |-> b, begins |-> entryBegins]]
         /\ UNCHANGED <<buffers, gbmMappings, op>>

\* UnacceleratedBuffer::waitUntilPaintingComplete and
\* GbmBuffer::waitUntilPaintingComplete: thread t calls it on buffer b.
waitUntilPaintingComplete(t, b) ==
    /\ aborted = "none"
    /\ b \in DOMAIN buffers
    /\ waiter[t].pc = "idle"
    /\ WaitStep(t, b, hist.begins, FALSE)
    /\ UNCHANGED <<memVars, nextId, poolVars, now, aborted, hist>>

\* A woken thread takes the lock again and tests the predicate again.
waitResumed(t) ==
    /\ aborted = "none"
    /\ waiter[t].pc = "notified"
    /\ WaitStep(t, waiter[t].b, waiter[t].begins, TRUE)
    /\ UNCHANGED <<memVars, nextId, poolVars, now, aborted, hist>>

\* A parked thread may wake without a notification.
spuriousWakeup(t) ==
    /\ aborted = "none"
    /\ waiter[t].pc = "parked"
    /\ waiter' = [waiter EXCEPT ![t].pc = "notified"]
    /\ UNCHANGED <<memVars, buffers, nextId, gbmMappings, poolVars, now, aborted, op, hist>>

(* --------------------------- texture import ---------------------------- *)

\* gbm_bo_get_plane_count(m_bo): the plane counts of the buffer objects.
PlaneCounts == {1, 2}

\* glGenTextures(1, &m_textureID) after n textures were generated: an unused
\* texture name, which is never 0.
glGenTextures(n) == n + 1


\* A createTexture that imports whether or not a texture exists.
GbmBuffer_createTexture_body_unguarded(buf, planeCount, imageCreated, generated) ==
    IF ~imageCreated
    THEN [buf |-> buf, fds |-> planeCount, images |-> 1, textures |-> 0]
    ELSE [buf |-> [buf EXCEPT !.m_textureID = glGenTextures(generated)],
          fds |-> planeCount, images |-> 1, textures |-> 1]

\* The body of GbmBuffer::createTexture, with what it asked of the
\* collaborators: file descriptors exported (one per plane), images created
\* by createEGLImage, textures allocated by glGenTextures.
GbmBuffer_createTexture_body(buf, planeCount, imageCreated, generated) ==
    IF buf.m_textureID = 0
    THEN IF ~imageCreated
         THEN [buf |-> buf, fds |-> planeCount, images |-> 1, textures |-> 0]
         ELSE [buf |-> [buf EXCEPT !.m_textureID = glGenTextures(generated)],
               fds |-> planeCount, images |-> 1, textures |-> 1]
    ELSE [buf |-> buf, fds |-> 0, images |-> 0, textures |-> 0]

\* GbmBuffer::createTexture on a buffer that has its buffer object (m_bo is
\* handed to the gbm_bo_get functions unchecked).
GbmBuffer_createTexture(b, planeCount, imageCreated) ==
    /\ aborted = "none"
    /\ hist.textureCalls < MaxTextureCalls
    /\ b \in DOMAIN buffers /\ buffers[b].kind = "Gbm" /\ buffers[b].m_bo
    /\ LET r == GbmBuffer_createTexture_body(buffers[b], planeCount, imageCreated,
                                              hist.textures)
       IN /\ buffers' = [buffers EXCEPT ![b] = r.buf]
          /\ hist' = [hist EXCEPT !.textureCalls = @ + 1,
                                  !.images = @ + r.images,
                                  !.textures = @ + r.textures]
          /\ op' = [name |-> "createTexture", buffer |-> b,
                    textureBefore |-> buffers[b].m_textureID,
                    imageCreated |-> imageCreated,
                    fds |-> r.fds, images |-> r.images, textures |-> r.textures]
    /\ UNCHANGED <<memVars, nextId, gbmMappings, poolVars, now, paintVars>>

(* ----------------------- the GPU-surface buffer ------------------------- *)

\* No GLFence cached: m_fence is null.
NoFence == 0

\* AcceleratedBuffer::AcceleratedBuffer: the buffer takes the surface it is
\* given; it is not counted in the memory accounting. submitted and finished
\* count the submissions of the surface's GPU work and those the GPU has
\* completed; fenceSupported is GLFence::isSupported().
AcceleratedBuffer(surfaceSize, flags, fenceSupported) ==
    [kind |-> "Accelerated", m_size |-> surfaceSize, m_flags |-> flags,
     refCount |-> 1, m_surface |-> TRUE, m_textureID |-> 0, m_fence |-> NoFence,
     recorded |-> FALSE, submitted |-> 0, finished |-> 0,
     fenceSupported |-> fenceSupported]

\* GLFence::create() after n submissions: a fence that is signalled once the
\* GPU has completed all n (null when the creation fails).
GLFence_create(n, created) == IF created THEN n ELSE NoFence

\* GLFence::wait on fence: returns once the GPU has completed the work
\* submitted before the fence; finished is what it has completed by then.
GLFence_wait(fence, finished) == Max(finished, fence)


\* A completePainting that keeps the fence of an earlier paint when there
\* is one, and submits without waiting.
AcceleratedBuffer_completePainting_body_keepingFence(buf, fenceCreated) ==
    LET n == buf.submitted + 1
    IN IF buf.fenceSupported
       THEN LET fence == IF buf.m_fence # NoFence THEN buf.m_fence
                         ELSE GLFence_create(n, fenceCreated)
            IN [buf EXCEPT !.recorded = FALSE, !.submitted = n, !.m_fence = fence,
                           !.finished = IF fence = NoFence THEN n ELSE @]
       ELSE [buf EXCEPT !.recorded = FALSE, !.submitted = n, !.finished = n]

\* The body of AcceleratedBuffer::completePainting up to the texture: with
\* fences, flushAndSubmit(GrSyncCpu::kNo) and a new fence, or a blocking
\* submit(GrSyncCpu::kYes) when none was created; without fences,
\* flushAndSubmit(GrSyncCpu::kYes), which blocks until the GPU is done.
AcceleratedBuffer_completePainting_body(buf, fenceCreated) ==
    LET n == buf.submitted + 1
    IN IF buf.fenceSupported
       THEN LET fence == GLFence_create(n, fenceCreated)
            IN [buf EXCEPT !.recorded = FALSE, !.submitted = n, !.m_fence = fence,
                           !.finished = IF fence = NoFence THEN n ELSE @]
       ELSE [buf EXCEPT !.recorded = FALSE, !.submitted = n, !.finished = n]

\* AcceleratedBuffer::beginPainting: save and clear on the surface's canvas.
AcceleratedBuffer_beginPainting(b) ==
    /\ aborted = "none" /\ PainterMayCall
    /\ b \in DOMAIN buffers /\ buffers[b].kind = "Accelerated"
    /\ buffers' = [buffers EXCEPT ![b].recorded = TRUE]
    /\ hist' = [hist EXCEPT !.begins = @ + 1]
    /\ op' = [name |-> "AcceleratedBuffer::beginPainting", buffer |-> b]
    /\ UNCHANGED <<memVars, nextId, gbmMappings, poolVars, now, paintVars>>

\* AcceleratedBuffer::completePainting; fID is the name of the surface's
\* backend texture, and RELEASE_ASSERT(m_textureID > 0) ends the process.
AcceleratedBuffer_completePainting(b, fenceCreated, fID) ==
    /\ aborted = "none" /\ PainterMayCall
    /\ b \in DOMAIN buffers /\ buffers[b].kind = "Accelerated"
    /\ LET buf == AcceleratedBuffer_completePainting_body(buffers[b], fenceCreated)
       IN buffers' = [buffers EXCEPT ![b] = [buf EXCEPT !.m_textureID = fID]]
    /\ aborted' = IF fID > 0 THEN "none" ELSE "assert"
    /\ hist' = [hist EXCEPT !.completes = @ + 1]
    /\ op' = [name |-> "AcceleratedBuffer::completePainting", buffer |-> b,
              fenceBefore |-> buffers[b].m_fence, returned |-> fID > 0]
    /\ UNCHANGED <<memVars, nextId, gbmMappings, poolVars, now, waiter>>

\* AcceleratedBuffer::waitUntilPaintingComplete
AcceleratedBuffer_waitUntilPaintingComplete(b) ==
    /\ aborted = "none"
    /\ b \in DOMAIN buffers /\ buffers[b].kind = "Accelerated"
    /\ IF buffers[b].m_fence = NoFence
       THEN UNCHANGED buffers
       ELSE buffers' = [buffers EXCEPT
                           ![b].finished = GLFence_wait(buffers[b].m_fence, @),
                           ![b].m_fence = NoFence]
    /\ op' = [name |-> "AcceleratedBuffer::waitUntilPaintingComplete", buffer |-> b,
              fenceBefore |-> buffers[b].m_fence, before |-> buffers[b]]
    /\ UNCHANGED <<memVars, nextId, gbmMappings, poolVars, now, paintVars, hist>>

\* The GPU completes the oldest submission it has not completed yet.
gpuCompletesWork(b) ==
    /\ aborted = "none"
    /\ b \in DOMAIN buffers /\ buffers[b].kind = "Accelerated"
    /\ buffers[b].finished < buffers[b].submitted
    /\ buffers' = [buffers EXCEPT ![b].finished = @ + 1]
    /\ op' = [name |-> "gpuCompletesWork"]
    /\ UNCHANGED <<memVars, nextId, gbmMappings, poolVars, now, paintVars, hist>>

(* ------------------------------ the pool ------------------------------- *)

\* The buffers of the entries of a sequence.
BuffersOf(entries) == {entries[i].m_buffer : i \in 1..Len(entries)}

\* Entry::markIsInUse: m_lastUsedTime = MonotonicTime::now().
markIsInUse(entry) == [entry EXCEPT !.m_lastUsedTime = now]

\* Entry::canBeReleased(minUsedTime): last used before minUsedTime and
\* referenced by the pool alone.
canBeReleased(entry, minUsedTime) ==
    entry.m_lastUsedTime < minUsedTime /\ buffers[entry.m_buffer].refCount = 1


\* A find_if predicate that does not look at the reference count.
EntryMatches_anyRefCount(entry, sz, alpha) ==
    /\ size(entry.m_buffer) = sz
    /\ supportsAlpha(entry.m_buffer) = alpha

\* The predicate of the std::find_if of acquireBuffer.
EntryMatches(entry, sz, alpha) ==
    /\ buffers[entry.m_buffer].refCount = 1
    /\ size(entry.m_buffer) = sz
    /\ supportsAlpha(entry.m_buffer) = alpha


\* A pool that never finds a free entry.
selectedEntry_never(sz, alpha) == 0

\* A find_if that accepts an entry of the same area (not the same size).
selectedEntry_byArea(sz, alpha) ==
    LET S == {i \in 1..Len(m_buffers) :
                 /\ buffers[m_buffers[i].m_buffer].refCount = 1
                 /\ area(size(m_buffers[i].m_buffer)) = area(sz)
                 /\ supportsAlpha(m_buffers[i].m_buffer) = alpha}
    IN IF S = {} THEN 0 ELSE CHOOSE i \in S : \A j \in S : i <= j

\* std::find_if(m_buffers.begin(), m_buffers.end(), ...): the index of the
\* first entry that matches, 0 for m_buffers.end().
selectedEntry(sz, alpha) ==
    LET S == {i \in 1..Len(m_buffers) : EntryMatches(m_buffers[i], sz, alpha)}
    IN IF S = {} THEN 0 ELSE CHOOSE i \in S : \A j \in S : i <= j

\* The buffers of the pool that are free and match (size, alpha).
FreeMatching(sz, alpha) ==
    {b \in BuffersOf(m_buffers) :
        /\ buffers[b].refCount = 1
        /\ buffers[b].m_size = sz
        /\ (buffers[b].m_flags = "SupportsAlpha") = alpha}



\* SkiaGbmBufferPool::createGbmBuffer: the object GbmBuffer::create returns,
\* whether or not the kernel allocator produced a buffer object for it.
SkiaGbmBufferPool_createGbmBuffer(sz, alpha, boCreated) ==
    GbmBuffer(sz, IF alpha THEN "SupportsAlpha" ELSE "NoFlags", boCreated)

\* A scheduling that takes the tolerance for the poll interval.
scheduleReleaseUnusedBuffers_everyTolerance(active, deadline) ==
    IF active
    THEN [active |-> active, deadline |-> deadline]
    ELSE [active |-> TRUE, deadline |-> now + releaseUnusedSecondsTolerance]

\* A scheduling that checks the timer and never starts it.
scheduleReleaseUnusedBuffers_notStarting(active, deadline) ==
    [active |-> active, deadline |-> deadline]

\* A scheduling that starts the timer again although it is pending.
scheduleReleaseUnusedBuffers_restarting(active, deadline) ==
    [active |-> TRUE, deadline |-> now + releaseUnusedBuffersTimerInterval]

\* SkiaGbmBufferPool::scheduleReleaseUnusedBuffers
scheduleReleaseUnusedBuffers(active, deadline) ==
    IF active
    THEN [active |-> active, deadline |-> deadline]
    ELSE [active |-> TRUE, deadline |-> now + releaseUnusedBuffersTimerInterval]

\* SkiaGbmBufferPool::acquireBuffer(size, supportsAlpha) called by client c;
\* withModifiers and plain are what the kernel allocator answers to
\* gbm_bo_create_with_modifiers2 and gbm_bo_create if a buffer is constructed.
acquireBuffer(c, sz, alpha, withModifiers, plain) ==
    /\ aborted = "none" /\ poolAlive /\ held[c] = NoBuffer
    /\ LET found == selectedEntry(sz, alpha)
           buffer == SkiaGbmBufferPool_createGbmBuffer(sz, alpha,
                         GbmBuffer_createGbmBuffer(gbmDevice, withModifiers, plain))
           timer == scheduleReleaseUnusedBuffers(timerActive, timerDeadline)
           free == FreeMatching(sz, alpha)
       IN IF found = 0
          THEN /\ nextId <= MaxAllocs
               /\ IF buffer = nullptr
                  THEN /\ op' = [name |-> "acquireBuffer", size |-> sz,
                                 alpha |-> alpha, result |-> NoBuffer, allocated |-> FALSE,
                                 free |-> free]
                       /\ UNCHANGED <<memVars, buffers, nextId, m_buffers, timerActive,
                                      timerDeadline, held, hist>>
                  ELSE /\ buffers' = With(buffers, nextId, [buffer EXCEPT !.refCount = 2])
                       /\ nextId' = nextId + 1
                       /\ AddMemoryUsage(checkedArea(sz))
                       /\ hist' = HistAfterAdd(checkedArea(sz))
                       /\ m_buffers' = Append(m_buffers,
                              markIsInUse([m_buffer |-> nextId, m_lastUsedTime |-> now]))
                       /\ timerActive' = timer.active
                       /\ timerDeadline' = timer.deadline
                       /\ held' = [held EXCEPT ![c] = nextId]
                       /\ op' = [name |-> "acquireBuffer", size |-> sz,
                                 alpha |-> alpha, result |-> nextId, allocated |-> TRUE,
                                 free |-> free]
          ELSE /\ buffers' = [buffers EXCEPT ![m_buffers[found].m_buffer].refCount = @ + 1]
               /\ m_buffers' = [m_buffers EXCEPT ![found] = markIsInUse(@)]
               /\ timerActive' = timer.active
               /\ timerDeadline' = timer.deadline
               /\ held' = [held EXCEPT ![c] = m_buffers[found].m_buffer]
               /\ op' = [name |-> "acquireBuffer", size |-> sz,
                         alpha |-> alpha, result |-> m_buffers[found].m_buffer,
                         allocated |-> FALSE, free |-> free]
               /\ hist' = HistForget({m_buffers[found].m_buffer})
               /\ UNCHANGED <<memVars, nextId>>
    /\ UNCHANGED <<gbmMappings, poolAlive, now, gbmDevice, paintVars>>


\* A sweep that adds the tolerance instead of subtracting it.
MinUsedTime_plusTolerance == now + releaseUnusedSecondsTolerance

\* A sweep with no tolerance: whatever was handed out before now is old.
MinUsedTime_withoutTolerance == now

\* A sweep that takes the poll interval for the tolerance.
MinUsedTime_byInterval == now - releaseUnusedBuffersTimerInterval

\* MonotonicTime minUsedTime = MonotonicTime::now() - releaseUnusedSecondsTolerance;
MinUsedTime == now - releaseUnusedSecondsTolerance


\* A sweep that removes by age alone.
removeAllMatching_byAgeAlone(entries, minUsedTime) ==
    SelectSeq(entries, LAMBDA entry : ~(entry.m_lastUsedTime < minUsedTime))

\* m_buffers.removeAllMatching(canBeReleased): the entries that stay, in order.
removeAllMatching(entries, minUsedTime) ==
    SelectSeq(entries, LAMBDA entry : ~canBeReleased(entry, minUsedTime))

\* SkiaGbmBufferPool::releaseUnusedBuffersTimerFired, run by the run loop
\* once the one-shot timer is due.
releaseUnusedBuffersTimerFired ==
    /\ aborted = "none" /\ poolAlive /\ timerActive /\ now >= timerDeadline
    /\ IF m_buffers = <<>>
       THEN /\ timerActive' = FALSE /\ timerDeadline' = 0
            /\ UNCHANGED <<memVars, buffers, gbmMappings, m_buffers, hist>>
       ELSE LET kept == removeAllMatching(m_buffers, MinUsedTime)
                timer == IF kept # <<>>
                         THEN scheduleReleaseUnusedBuffers(FALSE, 0)
                         ELSE [active |-> FALSE, deadline |-> 0]
            IN /\ m_buffers' = kept
               /\ deref(BuffersOf(m_buffers) \ BuffersOf(kept))
               /\ hist' = HistForget(BuffersOf(m_buffers) \ BuffersOf(kept))
               /\ timerActive' = timer.active
               /\ timerDeadline' = timer.deadline
    /\ op' = [name |-> "timerFired", at |-> now, before |-> m_buffers,
              refs |-> [b \in BuffersOf(m_buffers) |-> buffers[b].refCount],
              released |-> [b \in BuffersOf(m_buffers) |-> hist.releasedAt[b]]]
    /\ UNCHANGED <<nextId, poolAlive, now, held, gbmDevice, paintVars>>

\* SkiaGbmBufferPool::~SkiaGbmBufferPool; the timer member goes with the pool.
destroyPool ==
    /\ aborted = "none" /\ poolAlive
    /\ poolAlive' = FALSE
    /\ IF m_buffers = <<>>
       THEN UNCHANGED <<memVars, buffers, gbmMappings, m_buffers>>
       ELSE /\ m_buffers' = <<>>
            /\ deref(BuffersOf(m_buffers))
    /\ hist' = HistForget(BufferIds)
    /\ timerActive' = FALSE /\ timerDeadline' = 0
    /\ op' = [name |-> "destroyPool"]
    /\ UNCHANGED <<nextId, now, held, gbmDevice, paintVars>>

\* Client c drops the reference acquireBuffer gave it.
releaseBuffer(c) ==
    /\ aborted = "none" /\ held[c] # NoBuffer
    /\ held' = [held EXCEPT ![c] = NoBuffer]
    /\ deref({held[c]})
    /\ op' = [name |-> "releaseBuffer"]
    /\ UNCHANGED <<nextId, m_buffers, timerActive, timerDeadline, poolAlive, now,
                   gbmDevice, paintVars, hist>>

\* Client c drops the reference acquireBuffer gave it, and the time of the
\* release is kept for the properties.
releaseBufferAt(c) ==
    /\ aborted = "none" /\ held[c] # NoBuffer
    /\ held' = [held EXCEPT ![c] = NoBuffer]
    /\ deref({held[c]})
    /\ hist' = IF poolAlive THEN [hist EXCEPT !.releasedAt[held[c]] = now] ELSE hist
    /\ op' = [name |-> "releaseBuffer"]
    /\ UNCHANGED <<nextId, m_buffers, timerActive, timerDeadline, poolAlive, now,
                   gbmDevice, paintVars>>

\* Time passes while the pool lives; the run loop fires a timer that is due
\* before the clock advances further.
tick ==
    /\ aborted = "none" /\ poolAlive
    /\ now + TickMs <= MaxNow
    /\ timerActive => now < timerDeadline
    /\ now' = now + TickMs
    /\ op' = [name |-> "tick"]
    /\ UNCHANGED <<memVars, buffers, nextId, gbmMappings, poolVars, paintVars, hist>>

(* ---------------------------- initial states --------------------------- *)

NoOp == [name |-> "none"]

\* releasedAt[b] is when a client last dropped its reference to buffer b
\* (-1: never, or not recorded by the specification); textureCalls, images
\* and textures count the calls of createTexture, of createEGLImage and of
\* glGenTextures.
InitHist ==
    [maxSince |-> 0, begins |-> 0, completes |-> 0,
     releasedAt |-> [b \in BufferIds |-> -1],
     textureCalls |-> 0, images |-> 0, textures |-> 0]

InitCommon ==
    /\ s_currentLayersMemoryUsage = 0
    /\ s_maxLayersMemoryUsage = 0
    /\ buffers = <<>>
    /\ nextId = 1
    /\ gbmMappings = 0
    /\ m_buffers = <<>>
    /\ timerActive = FALSE
    /\ timerDeadline = 0
    /\ now = 0
    /\ held = [c \in Clients |-> NoBuffer]
    /\ waiter = [t \in Consumers |-> [pc |-> "idle", b |-> NoBuffer, begins |-> 0]]
    /\ aborted = "none"
    /\ op = NoOp
    /\ hist = InitHist

(* Memory accounting: buffers of both kinds are created and destroyed by *)
(* their owners, and the metrics consumer samples and resets.            *)
InitMem == InitCommon /\ poolAlive = FALSE /\ gbmDevice \in BOOLEAN

NextMem ==
    \/ \E sz \in MemSizes, flags \in Flags, ok \in BOOLEAN :
           UnacceleratedBuffer_create(sz, flags, ok)
    \/ \E sz \in MemSizes, flags \in Flags, m \in BOOLEAN, p \in BOOLEAN :
           GbmBuffer_create(sz, flags, GbmBuffer_createGbmBuffer(gbmDevice, m, p))
    \/ \E b \in BufferIds : derefCreated(b)
    \/ resetMemoryUsage
    \/ getMemoryUsage

SpecMem == InitMem /\ [][NextMem]_vars

(* Painting: one buffer of either kind, one painter, some consumers.     *)
InitPaint ==
    /\ gbmDevice \in BOOLEAN
    /\ \E sz \in PoolSizes, flags \in Flags, ok \in BOOLEAN, kind \in {"Unaccelerated", "Gbm"} :
           buffers = [b \in {1} |->
                         IF kind = "Gbm"
                         THEN GbmBuffer(sz, flags, GbmBuffer_createGbmBuffer(gbmDevice, ok, ok))
                         ELSE UnacceleratedBuffer(sz, flags, ok)]
    /\ s_currentLayersMemoryUsage = checkedArea(buffers[1].m_size)
    /\ s_maxLayersMemoryUsage = checkedArea(buffers[1].m_size)
    /\ nextId = 2
    /\ gbmMappings = 0
    /\ m_buffers = <<>>
    /\ timerActive = FALSE
    /\ timerDeadline = 0
    /\ poolAlive = FALSE
    /\ now = 0
    /\ held = [c \in Clients |-> NoBuffer]
    /\ waiter = [t \in Consumers |-> [pc |-> "idle", b |-> NoBuffer, begins |-> 0]]
    /\ aborted = "none"
    /\ op = NoOp
    /\ hist = [InitHist EXCEPT !.maxSince = checkedArea(buffers[1].m_size)]

NextPaint ==
    \/ \E b \in BufferIds : UnacceleratedBuffer_beginPainting(b)
    \/ \E b \in BufferIds : UnacceleratedBuffer_completePainting(b)
    \/ \E b \in BufferIds, mapOk \in BOOLEAN : GbmBuffer_beginPainting(b, mapOk)
    \/ \E b \in BufferIds : GbmBuffer_completePainting(b)
    \/ \E t \in Consumers, b \in BufferIds : waitUntilPaintingComplete(t, b)
    \/ \E t \in Consumers : waitResumed(t)
    \/ \E t \in Consumers : spuriousWakeup(t)
    \/ \E b \in BufferIds : derefCreated(b)

SpecPaint == InitPaint /\ [][NextPaint]_vars

(* Painting a kernel-memory-backed buffer that has its buffer object and  *)
(* whose gbm_bo_map calls succeed.                                       *)
InitMapped ==
    /\ gbmDevice = TRUE
    /\ \E sz \in PoolSizes, flags \in Flags :
           buffers = [b \in {1} |->
                         GbmBuffer(sz, flags, GbmBuffer_createGbmBuffer(gbmDevice, TRUE, TRUE))]
    /\ s_currentLayersMemoryUsage = checkedArea(buffers[1].m_size)
    /\ s_maxLayersMemoryUsage = checkedArea(buffers[1].m_size)
    /\ nextId = 2
    /\ gbmMappings = 0
    /\ m_buffers = <<>>
    /\ timerActive = FALSE
    /\ timerDeadline = 0
    /\ poolAlive = FALSE
    /\ now = 0
    /\ held = [c \in Clients |-> NoBuffer]
    /\ waiter = [t \in Consumers |-> [pc |-> "idle", b |-> NoBuffer, begins |-> 0]]
    /\ aborted = "none"
    /\ op = NoOp
    /\ hist = [InitHist EXCEPT !.maxSince = checkedArea(buffers[1].m_size)]

NextMapped ==
    \/ \E b \in BufferIds : GbmBuffer_beginPainting(b, TRUE)
    \/ \E b \in BufferIds : GbmBuffer_completePainting(b)
    \/ \E t \in Consumers, b \in BufferIds : waitUntilPaintingComplete(t, b)
    \/ \E t \in Consumers : waitResumed(t)
    \/ \E t \in Consumers : spuriousWakeup(t)
    \/ \E b \in BufferIds : derefCreated(b)

SpecMapped == InitMapped /\ [][NextMapped]_vars

(* Painting a GPU-surface buffer: a painter, a consumer and the GPU.      *)
InitFence ==
    /\ gbmDevice = TRUE
    /\ \E sz \in PoolSizes, flags \in Flags, fenceSupported \in BOOLEAN :
           buffers = [b \in {1} |-> AcceleratedBuffer(sz, flags, fenceSupported)]
    /\ s_currentLayersMemoryUsage = 0
    /\ s_maxLayersMemoryUsage = 0
    /\ nextId = 2
    /\ gbmMappings = 0
    /\ m_buffers = <<>>
    /\ timerActive = FALSE
    /\ timerDeadline = 0
    /\ poolAlive = FALSE
    /\ now = 0
    /\ held = [c \in Clients |-> NoBuffer]
    /\ waiter = [t \in Consumers |-> [pc |-> "idle", b |-> NoBuffer, begins |-> 0]]
    /\ aborted = "none"
    /\ op = NoOp
    /\ hist = InitHist

NextFence ==
    \/ \E b \in BufferIds : AcceleratedBuffer_beginPainting(b)
    \/ \E b \in BufferIds, fenceCreated \in BOOLEAN, fID \in 0..1 :
           AcceleratedBuffer_completePainting(b, fenceCreated, fID)
    \/ \E b \in BufferIds : AcceleratedBuffer_waitUntilPaintingComplete(b)
    \/ \E b \in BufferIds : gpuCompletesWork(b)

SpecFence == InitFence /\ [][NextFence]_vars

(* Importing a kernel-memory-backed buffer as a texture, between paints.  *)
NextTexture ==
    \/ \E b \in BufferIds, planeCount \in PlaneCounts, imageCreated \in BOOLEAN :
           GbmBuffer_createTexture(b, planeCount, imageCreated)
    \/ \E b \in BufferIds : GbmBuffer_beginPainting(b, TRUE)
    \/ \E b \in BufferIds : GbmBuffer_completePainting(b)
    \/ \E t \in Consumers, b \in BufferIds : waitUntilPaintingComplete(t, b)
    \/ \E t \in Consumers : waitResumed(t)
    \/ \E t \in Consumers : spuriousWakeup(t)
    \/ \E b \in BufferIds : derefCreated(b)

SpecTexture == InitMapped /\ [][NextTexture]_vars

(* The pool: clients acquire and release, the run loop fires the timer,  *)
(* time passes, and the pool is destroyed at some point.                 *)
InitPool == InitCommon /\ poolAlive = TRUE /\ gbmDevice \in BOOLEAN

NextPool ==
    \/ \E c \in Clients, sz \in PoolSizes, alpha \in BOOLEAN :
           acquireBuffer(c, sz, alpha, TRUE, TRUE)
    \/ \E c \in Clients : releaseBuffer(c)
    \/ releaseUnusedBuffersTimerFired
    \/ destroyPool
    \/ tick

SpecPool == InitPool /\ [][NextPool]_vars

(* The pool with the release times observed: the device has a render     *)
(* node, so every buffer the pool constructs has backing memory.         *)
InitIdle == InitCommon /\ poolAlive = TRUE /\ gbmDevice = TRUE

NextIdle ==
    \/ \E c \in Clients, sz \in PoolSizes :
           acquireBuffer(c, sz, TRUE, TRUE, TRUE)
    \/ \E c \in Clients : releaseBufferAt(c)
    \/ releaseUnusedBuffersTimerFired
    \/ destroyPool
    \/ tick

SpecIdle == InitIdle /\ [][NextIdle]_vars

(* ------------------------------ properties ----------------------------- *)

\* C1: on a CPU- or kernel-memory-backed buffer, a beginPainting called in
\* state Complete leaves the state InProgress and a completePainting called
\* in state InProgress leaves it Complete, neither failing an assertion; a
\* call made in the other state fails its assertion (a contract violation
\* that ends the process) and changes no state.
C1_AlternatingPainting ==
    op.name \in {"beginPainting", "completePainting"} =>
        LET expected == IF op.name = "beginPainting" THEN "Complete" ELSE "InProgress"
            after == IF op.name = "beginPainting" THEN "InProgress" ELSE "Complete"
        IN IF op.stateBefore = expected
           THEN ~op.violation /\ aborted = "none" /\ buffers[op.buffer].state = after
           ELSE op.violation /\ aborted = "assert"
                /\ buffers[op.buffer].state = op.stateBefore

\* C1 happens: after two full painting cycles a call out of turn was made.
C1_Witness ==
    /\ op.name \in {"beginPainting", "completePainting"}
    /\ op.violation
    /\ hist.begins >= 2 /\ hist.completes >= 1

\* C2: a waitUntilPaintingComplete call returns only in state Complete, and
\* only once every beginPainting made before the call was entered has been
\* followed by its completePainting.
C2_WaitReturnsWhenComplete ==
    op.name = "waitUntilPaintingComplete" =>
        /\ op.stateAtReturn = "Complete"
        /\ buffers[op.buffer].state = "Complete"
        /\ op.completesAtReturn >= op.beginsAtEntry

\* C2 happens: a consumer that had to park returned, after a second paint.
C2_Witness ==
    /\ op.name = "waitUntilPaintingComplete"
    /\ op.parked
    /\ op.beginsAtEntry >= 1
    /\ op.completesAtReturn >= 2

\* C3: the global counter is the sum of width*height*4 over the live buffers
\* (whether or not their backing allocation succeeded), hence 0 when no
\* buffer is live.
C3_CurrentIsSumOfLive ==
    /\ s_currentLayersMemoryUsage = SumBytes(DOMAIN buffers)
    /\ DOMAIN buffers = {} => s_currentLayersMemoryUsage = 0

\* C3 happens: a buffer was destroyed while a buffer whose backing allocation
\* failed is live and counted.
C3_Witness ==
    /\ op.name = "destroy"
    /\ \E b \in DOMAIN buffers : ~buffers[b].m_data /\ ~buffers[b].m_bo
    /\ s_currentLayersMemoryUsage > 0

\* C4: the peak is never below the current usage.
C4_PeakAtLeastCurrent == s_maxLayersMemoryUsage >= s_currentLayersMemoryUsage

\* C4 happens: with another buffer live, a construction raised the usage to a
\* new peak.
C4_Witness ==
    /\ op.name = "create"
    /\ hist.maxSince = s_currentLayersMemoryUsage
    /\ s_maxLayersMemoryUsage = s_currentLayersMemoryUsage
    /\ Cardinality(DOMAIN buffers) >= 2

\* C5: getMemoryUsage returns the largest value the usage took since the
\* last sample or reset and moves the peak to the present usage;
\* resetMemoryUsage does the latter; neither changes the usage; a sample
\* right after a sample or reset returns the usage itself.
C5_SampleReturnsPeakSinceLast ==
    /\ op.name = "getMemoryUsage" =>
           /\ op.result = op.maxSince
           /\ s_maxLayersMemoryUsage = s_currentLayersMemoryUsage
           /\ s_currentLayersMemoryUsage = op.currentBefore
           /\ op.prev \in {"getMemoryUsage", "resetMemoryUsage"} =>
                  op.result = s_currentLayersMemoryUsage
    /\ op.name = "resetMemoryUsage" =>
           /\ s_maxLayersMemoryUsage = s_currentLayersMemoryUsage
           /\ s_currentLayersMemoryUsage = op.currentBefore

\* C5 happens: a sample returned a peak above the present usage.
C5_Witness ==
    /\ op.name = "getMemoryUsage"
    /\ op.result > s_currentLayersMemoryUsage
    /\ s_currentLayersMemoryUsage > 0

\* C6: two clients never hold the same buffer, and the buffer acquireBuffer
\* returns is referenced by the pool and by the caller alone.
C6_NoBufferHandedOutTwice ==
    /\ \A c1, c2 \in Clients :
           c1 # c2 /\ held[c1] # NoBuffer => held[c1] # held[c2]
    /\ op.name = "acquireBuffer" /\ op.result # NoBuffer =>
           buffers[op.result].refCount = 2

\* C6 happens: a released buffer was handed out again while the other client
\* holds another buffer.
C6_Witness ==
    /\ op.name = "acquireBuffer" /\ ~op.allocated
    /\ \A c \in Clients : held[c] # NoBuffer

\* C7: when the pool holds a free buffer of the requested size and alpha,
\* acquireBuffer returns such a pooled buffer and allocates none; with one
\* such buffer (the case of one prior acquireBuffer) it returns that one.
C7_FreeBufferIsReused ==
    op.name = "acquireBuffer" /\ op.free # {} =>
        /\ ~op.allocated
        /\ op.result \in op.free

\* C7 happens: the only buffer ever allocated was released and acquired again.
C7_Witness ==
    /\ op.name = "acquireBuffer"
    /\ op.free = {1}
    /\ nextId = 2

\* C8, the state part: the buffer acquireBuffer returns has the requested
\* size and the requested alpha-support.
C8_ResultMatchesRequest ==
    op.name = "acquireBuffer" /\ op.result # NoBuffer =>
        /\ size(op.result) = op.size
        /\ supportsAlpha(op.result) = op.alpha

\* C8, the step part: no step changes the size or the flags of a buffer.
C8_SizeAndFlagsKept ==
    \A b \in DOMAIN buffers \cap DOMAIN buffers' :
        /\ buffers'[b].m_size = buffers[b].m_size
        /\ buffers'[b].m_flags = buffers[b].m_flags

\* C8: every buffer acquireBuffer returns has exactly the requested size and
\* alpha-support, and the size and flags of a buffer never change.
C8_ExactMatch == [](C8_ResultMatchesRequest) /\ [][C8_SizeAndFlagsKept]_vars

\* C8 happens: a buffer was allocated although the pool holds a free buffer
\* of the same area and alpha, which has another size.
C8_Witness ==
    /\ op.name = "acquireBuffer" /\ op.allocated
    /\ \E b \in BuffersOf(m_buffers) :
           /\ b # op.result
           /\ buffers[b].refCount = 1
           /\ buffers[b].m_size # op.size
           /\ (buffers[b].m_flags = "SupportsAlpha") = op.alpha

\* An entry as the timer callback found it: idle for longer than the
\* tolerance and referenced by nobody but the pool.
IdleAndUnreferenced(entry) ==
    /\ op.at - entry.m_lastUsedTime > releaseUnusedSecondsTolerance
    /\ op.refs[entry.m_buffer] = 1

\* C9: a timer firing removes exactly the entries that were last handed out
\* more than the tolerance ago and have no external reference, destroys
\* their buffers, and leaves the other entries in their order.
C9_SweepRemovesIdleUnreferenced ==
    op.name = "timerFired" =>
        /\ m_buffers = SelectSeq(op.before, LAMBDA entry : ~IdleAndUnreferenced(entry))
        /\ \A i \in 1..Len(op.before) :
               IdleAndUnreferenced(op.before[i]) => op.before[i].m_buffer \notin DOMAIN buffers

\* C9 happens: a firing removed one entry of two and kept the other.
C9_Witness ==
    /\ op.name = "timerFired"
    /\ Len(op.before) = 2
    /\ Len(m_buffers) = 1

\* C10: while the pool lives, a buffer a client holds is an entry of the pool
\* and is alive.
C10_HeldBufferStaysPooled ==
    poolAlive =>
        \A c \in Clients :
            held[c] # NoBuffer =>
                held[c] \in BuffersOf(m_buffers) /\ held[c] \in DOMAIN buffers

\* C10 happens: the timer fired while a client held a buffer handed out more
\* than the tolerance ago.
C10_Witness ==
    /\ op.name = "timerFired"
    /\ \E c \in Clients, i \in 1..Len(m_buffers) :
           /\ held[c] = m_buffers[i].m_buffer
           /\ op.at - m_buffers[i].m_lastUsedTime > releaseUnusedSecondsTolerance

\* The claim C11 as written, the step part: a pooled buffer whose external
\* reference was dropped at time t is still in the pool of a living pool at
\* every time before t + 5 s, is gone after a timer firing later than
\* t + 5 s, and an acquireBuffer that finds no free entry allocates.
C11_PresentAfterRelease ==
    /\ \A b \in BuffersOf(m_buffers) :
           /\ (/\ hist.releasedAt[b] >= 0
               /\ poolAlive'
               /\ now' < hist.releasedAt[b] + releaseUnusedSecondsTolerance)
              => b \in BuffersOf(m_buffers')
           /\ (/\ op'.name = "timerFired" /\ op' # op
               /\ hist.releasedAt[b] >= 0
               /\ now > hist.releasedAt[b] + releaseUnusedSecondsTolerance)
              => b \notin BuffersOf(m_buffers')
    /\ op'.name = "acquireBuffer" /\ op' # op /\ op'.result # NoBuffer /\ op'.free = {}
           => op'.allocated

\* The step part of C11 as amended: an entry last handed out at time h stays
\* in the living pool at every time up to h + 5 s; a timer firing later than
\* that which finds it unreferenced removes it and destroys the buffer; and
\* the buffer acquireBuffer returns is an entry of the pool or a new instance,
\* a new one when no free entry matches.
C11_PresentSinceHandout ==
    /\ \A i \in 1..Len(m_buffers) :
           LET entry == m_buffers[i]
           IN /\ poolAlive' /\ now' <= entry.m_lastUsedTime + releaseUnusedSecondsTolerance
                  => entry.m_buffer \in BuffersOf(m_buffers')
              /\ /\ op'.name = "timerFired" /\ op' # op
                 /\ now > entry.m_lastUsedTime + releaseUnusedSecondsTolerance
                 /\ buffers[entry.m_buffer].refCount = 1
                 => /\ entry.m_buffer \notin BuffersOf(m_buffers')
                    /\ entry.m_buffer \notin DOMAIN buffers'
    /\ op'.name = "acquireBuffer" /\ op' # op /\ op'.result # NoBuffer =>
           /\ op'.result \in BuffersOf(m_buffers) \/ op'.result = nextId
           /\ op'.free = {} => op'.allocated /\ op'.result = nextId

\* C11 as written: a released buffer stays pooled until 5 s after its
\* release, whatever the time it was handed out.
C11_Original == [][C11_PresentAfterRelease]_vars

\* C11 (amended): with tolerance 5 s, a pooled buffer stays in the pool until
\* 5 s after it was last handed out (not after it was released), is gone
\* after a timer firing later than that which finds it unreferenced, and is
\* never handed out afterwards: acquireBuffer then allocates a new instance
\* when no other free entry matches.
C11_IdleMeasuredFromHandout == [][C11_PresentSinceHandout]_vars

\* C11 happens: a timer firing removed a buffer from the living pool less
\* than 5 s after a client released it, and more than 5 s after the handout.
C11_Witness ==
    /\ op.name = "timerFired"
    /\ poolAlive
    /\ \E i \in 1..Len(op.before) :
           LET entry == op.before[i]
           IN /\ entry.m_buffer \notin BuffersOf(m_buffers)
              /\ op.released[entry.m_buffer] > entry.m_lastUsedTime
              /\ op.at < op.released[entry.m_buffer] + releaseUnusedSecondsTolerance
              /\ op.at > entry.m_lastUsedTime + releaseUnusedSecondsTolerance

\* C12: acquireBuffer never returns, nor stores in the pool, a buffer that
\* has no usable backing memory: when the allocation of a new buffer fails
\* it returns null and adds no entry.
C12_NullOnAllocationFailure ==
    /\ \A b \in BuffersOf(m_buffers) : buffers[b].m_bo
    /\ op.name = "acquireBuffer" =>
           IF op.result = NoBuffer
           THEN ~op.allocated
           ELSE buffers[op.result].m_bo

\* The time the pool last handed out buffer b, an entry of the pool.
LastUsedTime(b) ==
    LET i == CHOOSE j \in 1..Len(m_buffers) : m_buffers[j].m_buffer = b
    IN m_buffers[i].m_lastUsedTime

\* The claim C13 as written, the step part: a buffer a step destroys is
\* referenced by no client, a pooled one is referenced by the pool alone and
\* was last handed out more than the tolerance ago, and after the step
\* every buffer a client holds is alive.
C13_DestroyedOnlyIdle ==
    /\ \A b \in DOMAIN buffers \ DOMAIN buffers' :
           /\ \A c \in Clients : held'[c] # b
           /\ b \in BuffersOf(m_buffers) =>
                  /\ buffers[b].refCount = 1
                  /\ now > LastUsedTime(b) + releaseUnusedSecondsTolerance
    /\ \A c \in Clients : held'[c] # NoBuffer => held'[c] \in DOMAIN buffers'

\* The step part of C13 as amended: as above, but the destruction of the
\* pool destroys its unreferenced buffers whatever their idle time.
C13_DestroyedOnlyUnreferenced ==
    /\ \A b \in DOMAIN buffers \ DOMAIN buffers' :
           /\ \A c \in Clients : held'[c] # b
           /\ b \in BuffersOf(m_buffers) =>
                  /\ buffers[b].refCount = 1
                  /\ \/ now > LastUsedTime(b) + releaseUnusedSecondsTolerance
                     \/ poolAlive /\ ~poolAlive'
    /\ \A c \in Clients : held'[c] # NoBuffer => held'[c] \in DOMAIN buffers'

\* C13 as written: a pooled buffer is destroyed only after the idle
\* tolerance has elapsed with no reference beyond the pool's own.
C13_Original == [][C13_DestroyedOnlyIdle]_vars

\* C13 (amended): a buffer is destroyed only when no external reference
\* remains; a pooled buffer is destroyed by a timer firing only once more
\* than the tolerance has passed since its last handout with no reference
\* beyond the pool's own, or by the destruction of the pool, which destroys
\* the unreferenced buffers at once; no client holds a destroyed buffer.
C13_DestructionIsSafe == [][C13_DestroyedOnlyUnreferenced]_vars

\* C13 happens: the pool was destroyed, which destroyed a free buffer, while
\* a client holds another buffer, now the only reference to it.
C13_Witness ==
    /\ op.name = "destroyPool"
    /\ Cardinality(DOMAIN buffers) < nextId - 1
    /\ \E c \in Clients : held[c] # NoBuffer /\ buffers[held[c]].refCount = 1

\* A step in which acquireBuffer hands a buffer to a client.
AcquireStep == \E c \in Clients : held[c] = NoBuffer /\ held'[c] # NoBuffer

\* C14, the step part: an acquireBuffer made while the timer is pending
\* leaves it pending with the same deadline, and only the firing of the
\* timer or the destruction of the pool changes a pending timer.
C14_PendingTimerKept ==
    timerActive =>
        /\ AcquireStep => timerActive' /\ timerDeadline' = timerDeadline
        /\ (~timerActive' \/ timerDeadline' # timerDeadline) =>
               op'.name \in {"timerFired", "destroyPool"}

\* C14, the state part: a pending timer is due at most one interval from now.
C14_DeadlineWithinInterval ==
    timerActive => timerDeadline <= now + releaseUnusedBuffersTimerInterval

\* C14: the eviction timer is never re-scheduled while pending: an
\* acquireBuffer made while the one-shot timer is pending leaves its deadline
\* unchanged, so acquireBuffer calls cannot postpone the next sweep.
C14_NoRescheduleWhilePending ==
    [](C14_DeadlineWithinInterval) /\ [][C14_PendingTimerKept]_vars

\* C14 happens: acquireBuffer returned while a timer started before the call
\* was pending, after time had passed.
C14_Witness ==
    /\ op.name = "acquireBuffer" /\ op.result # NoBuffer
    /\ timerActive
    /\ now > 0
    /\ timerDeadline = now
    /\ Len(m_buffers) >= 2

\* C15: between the operations of a living pool the eviction timer is
\* pending if and only if the pool holds an entry: acquireBuffer leaves it
\* pending, and a timer firing leaves it pending, due one interval later,
\* exactly when entries remain after the sweep.
C15_TimerPendingIffEntries ==
    /\ poolAlive => (timerActive <=> m_buffers # <<>>)
    /\ op.name = "acquireBuffer" /\ op.result # NoBuffer => timerActive
    /\ op.name = "timerFired" =>
           /\ timerActive <=> m_buffers # <<>>
           /\ timerActive => timerDeadline = op.at + releaseUnusedBuffersTimerInterval

\* C15 happens: a sweep emptied a pool of two entries and left the timer idle.
C15_Witness ==
    /\ op.name = "timerFired"
    /\ Len(op.before) = 2
    /\ m_buffers = <<>>
    /\ ~timerActive
    /\ poolAlive

\* C16: idle time in the pool is bounded. While a released buffer, last
\* handed out at time h and released at time t, is an entry of the living
\* pool, a timer firing is pending and due at most 500 ms after the later of
\* t and h + 5 s; and every firing later than h + 5 s that finds the buffer
\* unreferenced removes it, whatever happens to the other entries.
C16_IdleTimeBounded ==
    /\ poolAlive =>
           \A i \in 1..Len(m_buffers) :
               LET entry == m_buffers[i]
                   t == hist.releasedAt[entry.m_buffer]
                   expiry == entry.m_lastUsedTime + releaseUnusedSecondsTolerance
               IN buffers[entry.m_buffer].refCount = 1 =>
                      /\ t >= entry.m_lastUsedTime
                      /\ timerActive
                      /\ timerDeadline <= Max(t, expiry) + releaseUnusedBuffersTimerInterval
    /\ op.name = "timerFired" =>
           \A i \in 1..Len(op.before) :
               LET entry == op.before[i]
               IN /\ op.refs[entry.m_buffer] = 1
                  /\ op.at > entry.m_lastUsedTime + releaseUnusedSecondsTolerance
                  => entry.m_buffer \notin BuffersOf(m_buffers)

\* C16 happens: a buffer held for longer than the tolerance was removed by
\* the firing one interval after its release, while the other entry, handed
\* out in between, stayed.
C16_Witness ==
    /\ op.name = "timerFired"
    /\ Len(op.before) = 2
    /\ Len(m_buffers) = 1
    /\ \E i \in 1..2 :
           LET entry == op.before[i]
           IN /\ entry.m_buffer \notin BuffersOf(m_buffers)
              /\ op.released[entry.m_buffer] > entry.m_lastUsedTime + releaseUnusedSecondsTolerance
              /\ op.at = op.released[entry.m_buffer] + releaseUnusedBuffersTimerInterval
              /\ m_buffers[1].m_lastUsedTime > entry.m_lastUsedTime

\* C17: no wake-up is lost: no thread stays blocked in
\* waitUntilPaintingComplete, with nothing on its way to wake it, while the
\* painting state of its buffer is Complete.
C17_NoLostWakeup ==
    \A t \in Consumers :
        waiter[t].pc = "parked" => buffers[waiter[t].b].state = "InProgress"

\* C18: for a GbmBuffer with a buffer object whose map calls succeed: while
\* the painting state is InProgress the buffer is CPU-mapped (address, map
\* token and paint surface are set), every live buffer has at most one
\* kernel mapping outstanding and a destroyed buffer none.
C18_MappedWhilePainting ==
    /\ \A b \in DOMAIN buffers :
           buffers[b].state = "InProgress" =>
               buffers[b].m_mapData /\ buffers[b].m_data /\ buffers[b].m_surface
    /\ gbmMappings = Cardinality({b \in DOMAIN buffers : buffers[b].m_mapData})
    /\ gbmMappings <= Cardinality(DOMAIN buffers)

\* C18 happens: a consumer that blocked during the second paint returned
\* after it and unmapped the buffer.
C18_Witness ==
    /\ op.name = "waitUntilPaintingComplete"
    /\ op.parked
    /\ hist.begins = 2 /\ hist.completes = 2
    /\ gbmMappings = 0
    /\ ~buffers[op.buffer].m_mapData

\* C19: for a GPU-surface buffer, a cached fence covers every submission
\* made so far, and with no fence cached the GPU has completed them all: so
\* after completePainting returns either a fence is cached or the work is
\* done, after waitUntilPaintingComplete returns the work of every
\* preceding completePainting is done and no fence is cached, and a
\* waitUntilPaintingComplete that finds no fence changes nothing.
C19_FenceCoversSubmittedWork ==
    /\ \A b \in DOMAIN buffers :
           buffers[b].kind = "Accelerated" =>
               IF buffers[b].m_fence = NoFence
               THEN buffers[b].finished = buffers[b].submitted
               ELSE buffers[b].m_fence = buffers[b].submitted
    /\ op.name = "AcceleratedBuffer::completePainting" /\ op.returned =>
           \/ buffers[op.buffer].m_fence # NoFence
           \/ buffers[op.buffer].finished = buffers[op.buffer].submitted
    /\ op.name = "AcceleratedBuffer::waitUntilPaintingComplete" =>
           /\ buffers[op.buffer].m_fence = NoFence
           /\ buffers[op.buffer].finished = buffers[op.buffer].submitted
           /\ buffers[op.buffer].submitted = hist.completes
           /\ op.fenceBefore = NoFence => buffers[op.buffer] = op.before

\* C19 happens: a wait returned after two paints were completed with no wait
\* in between, the fence of the first replaced by that of the second, while
\* the GPU had completed neither.
C19_Witness ==
    /\ op.name = "AcceleratedBuffer::waitUntilPaintingComplete"
    /\ op.fenceBefore = 2
    /\ op.before.finished = 0
    /\ buffers[op.buffer].finished = 2

\* C20: createTexture is one-time and idempotent. A call that finds no
\* texture exports the planes and creates an image once; when that fails the
\* handle stays 0 and no texture is allocated, when it succeeds one texture
\* is allocated and the handle is its non-zero name. A call that finds a
\* texture exports nothing, creates no image, allocates no texture and keeps
\* the handle. At most one texture is ever created for the buffer.
C20_TextureCreatedOnce ==
    /\ hist.textures <= 1
    /\ \A b \in DOMAIN buffers :
           buffers[b].kind = "Gbm" => (buffers[b].m_textureID # 0 <=> hist.textures = 1)
    /\ op.name = "createTexture" =>
           LET textureID == buffers[op.buffer].m_textureID
           IN IF op.textureBefore # 0
              THEN /\ op.fds = 0 /\ op.images = 0 /\ op.textures = 0
                   /\ textureID = op.textureBefore
              ELSE /\ op.images = 1 /\ op.fds > 0
                   /\ IF op.imageCreated
                      THEN textureID # 0 /\ op.textures = 1
                      ELSE textureID = 0 /\ op.textures = 0

\* C20 happens: after an import that failed and one that succeeded, a third
\* call found the texture and did nothing.
C20_Witness ==
    /\ op.name = "createTexture"
    /\ op.textureBefore # 0
    /\ hist.textureCalls = 3
    /\ hist.images = 2
    /\ hist.textures = 1

====
